---- MODULE Spec2Model ----
(***************************************************************************)
(* Model of the Snaek Discord bot (src/backend/bot.py): the items table,   *)
(* the admins table, and the slash-command handlers /value, /set,          *)
(* /addadmin, /removeadmin and /listadmins.                                *)
(*                                                                         *)
(* Text is a sequence of one-character strings, so that strip() and        *)
(* lower() are computed and not assumed.  Discord user ids are small       *)
(* naturals (the handlers only compare them and render them in decimal).   *)
(***************************************************************************)
EXTENDS Integers, Sequences, FiniteSets, TLC

VARIABLES items, admins, now, last, pending

vars == <<items, admins, now, last, pending>>

\* ------------------------------------------------------------------ bounds
\* rows in the items table of the lookup specification
MaxItems == 2
\* item writes in one behaviour (each write stamps a later instant)
MaxClock == 1

\* ------------------------------------------------------------------- text
Min(S) == CHOOSE x \in S : \A y \in S : x <= y

Max(S) == CHOOSE x \in S : \A y \in S : x >= y

\* str.lower() on one character (the upper-case letters the inputs use)
LowerChar(c) ==
    CASE c = "A" -> "a"
      [] c = "B" -> "b"
      [] c = "D" -> "d"
      [] c = "G" -> "g"
      [] c = "X" -> "x"
      [] c = "Y" -> "y"
      [] OTHER -> c

\* str.lower()
Lower(s) == [i \in 1..Len(s) |-> LowerChar(s[i])]

\* str.strip(): drop leading and trailing blanks
Strip(s) ==
    LET keep == {i \in 1..Len(s) : s[i] # " "}
    IN  IF keep = {} THEN <<>> ELSE SubSeq(s, Min(keep), Max(keep))

Digits == <<"0", "1", "2", "3", "4", "5", "6", "7", "8", "9">>

IsDigit(c) == \E d \in 1..Len(Digits) : Digits[d] = c

DigitVal(c) == (CHOOSE d \in 1..Len(Digits) : Digits[d] = c) - 1

\* str(n) for a natural n: its decimal digits
RECURSIVE IntToStr(_)
IntToStr(n) ==
    IF n < 10 THEN <<Digits[n + 1]>>
    ELSE Append(IntToStr(n \div 10), Digits[(n % 10) + 1])

\* value of a sequence of decimal digits
RECURSIVE DigitsValue(_)
DigitsValue(s) ==
    IF s = <<>> THEN 0
    ELSE 10 * DigitsValue(SubSeq(s, 1, Len(s) - 1)) + DigitVal(s[Len(s)])

\* ----------------------------------------------------------------- values
\* A column value: <<kind, number, decimals, text>>.
Null == <<"null", 0, 0, <<>>>>

IntV(n) == <<"int", n, 0, <<>>>>

\* the decimal number m / 10^k, without trailing zero decimals
RECURSIVE FloatV(_, _)
FloatV(m, k) ==
    IF k > 0 /\ m % 10 = 0 THEN FloatV(m \div 10, k - 1)
    ELSE <<"float", m, k, <<>>>>

TextV(s) == <<"text", 0, 0, s>>

\* ------------------------------------------------------------- principals
\* OWNER_ID = 470431863316414465 in the source; scaled to fit TLC's integers
OWNER_ID == 4

\* people who may be named in a command
Humans == {OWNER_ID, 7, 12}

\* people who invoke commands
Callers == {OWNER_ID, 7}

\* accounts with user.bot set
Bots == {21}

Everyone == Humans \cup Bots

\* ------------------------------------------------------------------ store
\* an error text is the sequence of its words
UniqueViolation == <<"duplicate", "key", "value", "violates", "unique", "constraint">>

TransportError == <<"connection", "refused">>

\* A handler run is given the set `down` of store calls that raise during it
\* (at most one: the handler ends at the first call that raises).
Faults(calls) == {{}} \cup {{c} : c \in calls}

\* one entry of a handler's log of store calls
Call(name, down) == [call |-> name, ok |-> name \notin down]

\* a row of the items table
Row(id, gun, skin) ==
    [id |-> id, gun |-> gun, skin_name |-> skin,
     base_value |-> Null, dg_value |-> Null, ck_value |-> Null,
     upg_value |-> Null, status |-> Null, updated_at |-> 0]

\* what find_item returns for None
NoItem == Row(0, <<>>, <<>>)

\* mutant: the update without its .eq("id", id) filter
StoreUpdateEveryRow(rows, id, col, v, stamp) ==
    [i \in 1..Len(rows) |-> [rows[i] EXCEPT ![col] = v, !.updated_at = stamp]]

\* .update(payload).eq("id", id): the table afterwards
StoreUpdate(rows, id, col, v, stamp) ==
    [i \in 1..Len(rows) |->
        IF rows[i].id = id
        THEN [rows[i] EXCEPT ![col] = v, !.updated_at = stamp]
        ELSE rows[i]]

\* .update(...).execute().data: the rows the update changed
StoreUpdated(rows, id) == {i \in 1..Len(rows) : rows[i].id = id}

\* mutant: the two columns of the inserted row exchanged
AdminRowSwapped(user_id, added_by) ==
    [user_id |-> IntToStr(added_by), added_by |-> IntToStr(user_id)]

\* a row of the admins table
AdminRow(user_id, added_by) ==
    [user_id |-> IntToStr(user_id), added_by |-> IntToStr(added_by)]

\* .insert(row) into admins, whose user_id column is unique: the error
\* raised (<<>> for none) and the table afterwards
StoreInsertAdmin(rows, row) ==
    IF \E r \in rows : r.user_id = row.user_id
    THEN [error |-> UniqueViolation, rows |-> rows]
    ELSE [error |-> <<>>, rows |-> rows \cup {row}]

\* .delete().eq("user_id", uid).execute().data: the rows deleted
StoreDeleted(rows, uid) == {r \in rows : r.user_id = uid}

\* ---------------------------------------------------------- authorization
_is_owner(user_id) == user_id = OWNER_ID

\* mutant: the select without its .eq("user_id", ...) filter
_is_admin_sync_any(user_id, rows, down) ==
    IF Call("admins.select", down).ok THEN rows # {} ELSE FALSE

\* mutant: a store error counts as "is an admin"
_is_admin_sync_failopen(user_id, rows, down) ==
    IF Call("admins.select", down).ok
    THEN \E r \in rows : r.user_id = IntToStr(user_id)
    ELSE TRUE

\* the lookup in the admins table; a store error counts as "not an admin"
_is_admin_sync(user_id, rows, down) ==
    IF Call("admins.select", down).ok
    THEN \E r \in rows : r.user_id = IntToStr(user_id)
    ELSE FALSE

\* mutant: the permission test left out
_can_set_values_open(user_id, rows, down) == TRUE

_can_set_values(user_id, rows, down) ==
    IF _is_owner(user_id) THEN TRUE ELSE _is_admin_sync(user_id, rows, down)

\* the store calls _can_set_values makes
AuthCalls(user_id, down) ==
    IF _is_owner(user_id) THEN <<>> ELSE <<Call("admins.select", down)>>

\* ----------------------------------------------------------------- lookup
\* mutant: the stored skin_name compared without lower()
find_item_cased(gun, skin, rows, down) ==
    LET gun_norm == Lower(Strip(gun))
        skin_norm == Lower(Strip(skin))
        Candidate(r) == r.gun = gun_norm
        data == SelectSeq(rows, Candidate)
        hits == {i \in 1..Len(data) : Strip(data[i].skin_name) = skin_norm}
    IN  IF gun_norm = <<>> \/ skin_norm = <<>>
        THEN [item |-> NoItem, calls |-> <<>>, raised |-> FALSE]
        ELSE IF ~Call("items.select", down).ok
        THEN [item |-> NoItem, calls |-> <<Call("items.select", down)>>, raised |-> TRUE]
        ELSE [item |-> IF hits = {} THEN NoItem ELSE data[Min(hits)],
              calls |-> <<Call("items.select", down)>>, raised |-> FALSE]

\* find_item: [item, calls, raised]
find_item(gun, skin, rows, down) ==
    LET gun_norm == Lower(Strip(gun))
        skin_norm == Lower(Strip(skin))
        Candidate(r) == r.gun = gun_norm
        data == SelectSeq(rows, Candidate)
        hits == {i \in 1..Len(data) : Lower(Strip(data[i].skin_name)) = skin_norm}
    IN  IF gun_norm = <<>> \/ skin_norm = <<>>
        THEN [item |-> NoItem, calls |-> <<>>, raised |-> FALSE]
        ELSE IF ~Call("items.select", down).ok
        THEN [item |-> NoItem, calls |-> <<Call("items.select", down)>>, raised |-> TRUE]
        ELSE [item |-> IF hits = {} THEN NoItem ELSE data[Min(hits)],
              calls |-> <<Call("items.select", down)>>, raised |-> FALSE]

\* --------------------------------------------------------------- coercion
\* VALUE_FIELDS: field key -> column
VALUE_FIELDS ==
    (<<"b", "a", "s", "e">> :> "base_value")
    @@ (<<"d", "g">> :> "dg_value")
    @@ (<<"c", "k">> :> "ck_value")
    @@ (<<"u", "p", "g">> :> "upg_value")
    @@ (<<"s", "t", "a", "t", "u", "s">> :> "status")

\* field.strip().lower()
FieldLower(field) == Lower(Strip(field))

\* int(t) succeeds: one or more decimal digits (the inputs here hold digits,
\* a decimal point, blanks and letters: no sign, underscore or exponent)
IsIntText(t) == t # <<>> /\ \A i \in 1..Len(t) : IsDigit(t[i])

\* float(t) succeeds where int(t) did not: digits around one decimal point
IsFloatText(t) ==
    LET dots == {i \in 1..Len(t) : t[i] = "."}
    IN  /\ Cardinality(dots) = 1
        /\ Len(t) >= 2
        /\ \A i \in 1..Len(t) : i \in dots \/ IsDigit(t[i])

FloatOf(t) ==
    LET dot == CHOOSE i \in 1..Len(t) : t[i] = "."
    IN  FloatV(DigitsValue(SubSeq(t, 1, dot - 1) \o SubSeq(t, dot + 1, Len(t))),
               Len(t) - dot)

\* the payload value for column col from the raw text: [ok, v]
CoerceValue(col, value) ==
    LET t == Strip(value)
    IN  IF col = "base_value"
        THEN IF IsIntText(t) THEN [ok |-> TRUE, v |-> IntV(DigitsValue(t))]
             ELSE IF IsFloatText(t) THEN [ok |-> TRUE, v |-> FloatOf(t)]
             ELSE [ok |-> FALSE, v |-> Null]
        ELSE [ok |-> TRUE, v |-> IF t = <<>> THEN Null ELSE TextV(t)]

\* ------------------------------------------------------------------- /set
\* what a handler run leaves behind: its reply, the store calls it made, the
\* tables afterwards and the id of the item it resolved (0 for none)
Outcome(result, calls, rows, adm, id) ==
    [result |-> result, calls |-> calls, items |-> rows, admins |-> adm, item |-> id]

\* mutant: the value coerced before the item is looked at
set_cmd_deferred_coerce_first(auth, found, col, value, rows, adm, clock, down) ==
    LET item == found.item
        looked == auth \o found.calls
        wrote == looked \o <<Call("items.update", down)>>
    IN  IF ~CoerceValue(col, value).ok
        THEN Outcome("InvalidValue", looked, rows, adm, item.id)
        ELSE IF found.raised
        THEN Outcome("Error", looked, rows, adm, 0)
        ELSE IF item = NoItem
        THEN Outcome("ItemNotFound", looked, rows, adm, 0)
        ELSE IF ~Call("items.update", down).ok
        THEN Outcome("Error", wrote, rows, adm, item.id)
        ELSE IF StoreUpdated(rows, item.id) # {}
        THEN Outcome("Updated", wrote,
                     StoreUpdate(rows, item.id, col, CoerceValue(col, value).v,
                                 clock + 1),
                     adm, item.id)
        ELSE Outcome("UpdateFailed", wrote, rows, adm, item.id)

\* mutant: Updated replied without looking at upd.data
set_cmd_deferred_unconfirmed(auth, found, col, value, rows, adm, clock, down) ==
    LET item == found.item
        looked == auth \o found.calls
        wrote == looked \o <<Call("items.update", down)>>
    IN  IF found.raised
        THEN Outcome("Error", looked, rows, adm, 0)
        ELSE IF item = NoItem
        THEN Outcome("ItemNotFound", looked, rows, adm, 0)
        ELSE IF ~CoerceValue(col, value).ok
        THEN Outcome("InvalidValue", looked, rows, adm, item.id)
        ELSE IF ~Call("items.update", down).ok
        THEN Outcome("Error", wrote, rows, adm, item.id)
        ELSE Outcome("Updated", wrote,
                     StoreUpdate(rows, item.id, col, CoerceValue(col, value).v,
                                 clock + 1),
                     adm, item.id)

\* set_cmd from the deferral on, given what find_item returned
set_cmd_deferred(auth, found, col, value, rows, adm, clock, down) ==
    LET item == found.item
        looked == auth \o found.calls
        wrote == looked \o <<Call("items.update", down)>>
    IN  IF found.raised
        THEN Outcome("Error", looked, rows, adm, 0)
        ELSE IF item = NoItem
        THEN Outcome("ItemNotFound", looked, rows, adm, 0)
        ELSE IF ~CoerceValue(col, value).ok
        THEN Outcome("InvalidValue", looked, rows, adm, item.id)
        ELSE IF ~Call("items.update", down).ok
        THEN Outcome("Error", wrote, rows, adm, item.id)
        ELSE IF StoreUpdated(rows, item.id) # {}
        THEN Outcome("Updated", wrote,
                     StoreUpdate(rows, item.id, col, CoerceValue(col, value).v,
                                 clock + 1),
                     adm, item.id)
        ELSE Outcome("UpdateFailed", wrote, rows, adm, item.id)

\* mutant: the item looked up before the field key is tested
set_cmd_checked_lookup_first(caller, field_lower, gun, skin, value, rows, adm, clock, down) ==
    IF ~_can_set_values(caller, adm, down)
    THEN Outcome("NotAuthorized", AuthCalls(caller, down), rows, adm, 0)
    ELSE IF field_lower \notin DOMAIN VALUE_FIELDS
    THEN Outcome("InvalidField",
                 AuthCalls(caller, down) \o find_item(gun, skin, rows, down).calls,
                 rows, adm, 0)
    ELSE set_cmd_deferred(AuthCalls(caller, down),
                          find_item(gun, skin, rows, down),
                          VALUE_FIELDS[field_lower], value, rows, adm, clock, down)

\* set_cmd up to the deferral, given field.strip().lower()
set_cmd_checked(caller, field_lower, gun, skin, value, rows, adm, clock, down) ==
    IF ~_can_set_values(caller, adm, down)
    THEN Outcome("NotAuthorized", AuthCalls(caller, down), rows, adm, 0)
    ELSE IF field_lower \notin DOMAIN VALUE_FIELDS
    THEN Outcome("InvalidField", AuthCalls(caller, down), rows, adm, 0)
    ELSE set_cmd_deferred(AuthCalls(caller, down),
                          find_item(gun, skin, rows, down),
                          VALUE_FIELDS[field_lower], value, rows, adm, clock, down)

set_cmd(caller, gun, skin, field, value, rows, adm, clock, down) ==
    set_cmd_checked(caller, FieldLower(field), gun, skin, value, rows, adm,
                    clock, down)

\* ----------------------------------------------------------------- /value
value_cmd(gun, skin, rows, adm, down) ==
    LET found == find_item(gun, skin, rows, down)
    IN  IF found.raised THEN Outcome("Error", found.calls, rows, adm, 0)
        ELSE IF found.item = NoItem
        THEN Outcome("NotFound", found.calls, rows, adm, 0)
        ELSE Outcome("Found", found.calls, rows, adm, found.item.id)

\* ------------------------------------------------------ /addadmin and co.
\* mutant: no error is recognised as a uniqueness violation
IsDuplicateErrorNever(e) == FALSE

\* "duplicate" in str(e).lower() or "unique" in str(e).lower(), on an error
\* text given as its lower-cased words
IsDuplicateError(e) ==
    \E i \in 1..Len(e) : e[i] = "duplicate" \/ e[i] = "unique"

\* interaction.user.id != OWNER_ID, the first test of /addadmin
addadmin_denied(caller) == caller # OWNER_ID

\* mutant: the owner's own id is inserted like any other
addadmin_self_never(target) == FALSE

\* user.id == OWNER_ID, the third test of /addadmin
addadmin_self(target) == target = OWNER_ID

addadmin_cmd(caller, target, rows, adm, down) ==
    LET call == Call("admins.insert", down)
        ins == StoreInsertAdmin(adm, AdminRow(target, caller))
        e == IF call.ok THEN ins.error ELSE TransportError
    IN  IF addadmin_denied(caller) THEN Outcome("Denied", <<>>, rows, adm, 0)
        ELSE IF target \in Bots THEN Outcome("IsBot", <<>>, rows, adm, 0)
        ELSE IF addadmin_self(target) THEN Outcome("AlreadyOwner", <<>>, rows, adm, 0)
        ELSE IF e = <<>> THEN Outcome("Granted", <<call>>, rows, ins.rows, 0)
        ELSE IF IsDuplicateError(e) THEN Outcome("AlreadyAdmin", <<call>>, rows, adm, 0)
        ELSE Outcome("Failed", <<call>>, rows, adm, 0)

\* mutant: /removeadmin open to everybody
removeadmin_denied_never(caller) == FALSE

\* interaction.user.id != OWNER_ID, the first test of /removeadmin
removeadmin_denied(caller) == caller # OWNER_ID

\* mutant: >= for > in the test of the deleted rows
removeadmin_reply_always(deleted) ==
    IF Cardinality(deleted) >= 0 THEN "Revoked" ELSE "NotAnAdmin"

\* the reply of /removeadmin from the rows the delete returned
removeadmin_reply(deleted) ==
    IF Cardinality(deleted) > 0 THEN "Revoked" ELSE "NotAnAdmin"

removeadmin_cmd(caller, target, rows, adm, down) ==
    LET call == Call("admins.delete", down)
        deleted == StoreDeleted(adm, IntToStr(target))
    IN  IF removeadmin_denied(caller) THEN Outcome("Denied", <<>>, rows, adm, 0)
        ELSE IF ~call.ok THEN Outcome("Failed", <<call>>, rows, adm, 0)
        ELSE Outcome(removeadmin_reply(deleted), <<call>>, rows, adm \ deleted, 0)

\* interaction.user.id != OWNER_ID, the first test of /listadmins
listadmins_denied(caller) == caller # OWNER_ID

listadmins_cmd(caller, rows, adm, down) ==
    LET call == Call("admins.list", down)
    IN  IF listadmins_denied(caller) THEN Outcome("Denied", <<>>, rows, adm, 0)
        ELSE IF ~call.ok THEN Outcome("Failed", <<call>>, rows, adm, 0)
        ELSE Outcome("Listed", <<call>>, rows, adm, 0)

\* ----------------------------------------------------------------- inputs
\* what the items table may hold for gun and skin_name (the table is
\* filled by other programs; this one never writes these two columns)
StoredGuns == {<<"a">>, <<"A">>, <<"a", " ">>}

StoredSkins == {<<"x">>, <<"X", " ">>, <<" ">>}

\* the items tables of at most n rows, ids 1..n in table order
Stores(n) ==
    UNION {{[i \in 1..k |-> Row(i, g[i], sk[i])] :
                g \in [1..k -> StoredGuns], sk \in [1..k -> StoredSkins]} :
           k \in 0..n}

\* the table the command specification starts from
SeedItems == <<Row(1, <<"a">>, <<"x">>), Row(2, <<"a">>, <<"Y", " ">>)>>

GunInputs == {<<"a">>, <<" ", "A">>, <<"b">>, <<" ">>}

SkinInputs == {<<"x">>, <<"X">>, <<" ", "x", " ">>, <<>>}

\* (gun, skin) arguments of /set: one that finds a row, one that finds none
SetTargets == {<<<<" ", "A">>, <<"y">>>>, <<<<"a">>, <<"b">>>>}

FieldInputs == {<<" ", "B", "a", "s", "e">>, <<"D", "G", " ">>, <<"x", "y">>}

ValueInputs == {<<" ", "1", "2">>, <<"2", ".", "5", "0">>, <<"x">>, <<" ">>}

\* the admins tables a behaviour may start from: rows the owner granted
AdminTables == SUBSET {AdminRow(u, OWNER_ID) : u \in Humans \ {OWNER_ID}}

\* ------------------------------------------------------------------ state
\* `last` is the record of the handler run that just ended
Ran(cmd, caller, target, gun, skin, field, value, out) ==
    [cmd |-> cmd, caller |-> caller, target |-> target, gun |-> gun,
     skin |-> skin, field |-> field, value |-> value,
     result |-> out.result, calls |-> out.calls, item |-> out.item]

\* `pending` is the /set run in flight, if any: where it stands, its
\* arguments, the store calls of its permission test and what its find_item
\* returned
Request(phase, caller, gun, skin, field, value, auth, found) ==
    [phase |-> phase, caller |-> caller, gun |-> gun, skin |-> skin,
     field |-> field, value |-> value, auth |-> auth, found |-> found]

NoRequest ==
    Request("none", 0, <<>>, <<>>, <<>>, <<>>, <<>>,
            [item |-> NoItem, calls |-> <<>>, raised |-> FALSE])

Idle ==
    Ran("none", 0, 0, <<>>, <<>>, <<>>, <<>>, Outcome("none", <<>>, <<>>, {}, 0))

Init ==
    /\ items = SeedItems
    /\ admins \in AdminTables
    /\ now = 0
    /\ last = Idle
    /\ pending = NoRequest

SetCmd ==
    \E caller \in Callers, target \in SetTargets, field \in FieldInputs,
       value \in ValueInputs,
       down \in Faults({"admins.select", "items.select", "items.update"}) :
        \E out \in {set_cmd(caller, target[1], target[2], field, value,
                           items, admins, now, down)} :
            /\ out.items # items => now < MaxClock
            /\ items' = out.items
            /\ admins' = out.admins
            /\ now' = IF out.items # items THEN now + 1 ELSE now
            /\ last' = Ran("set", caller, 0, target[1], target[2], field, value, out)
            /\ UNCHANGED pending

ValueCmd ==
    \E gun \in GunInputs, skin \in SkinInputs, down \in Faults({"items.select"}) :
        \E out \in {value_cmd(gun, skin, items, admins, down)} :
            /\ items' = out.items
            /\ admins' = out.admins
            /\ last' = Ran("value", 0, 0, gun, skin, <<>>, <<>>, out)
            /\ UNCHANGED <<now, pending>>

AddAdmin ==
    \E caller \in Callers, target \in Everyone, down \in Faults({"admins.insert"}) :
        \E out \in {addadmin_cmd(caller, target, items, admins, down)} :
            /\ items' = out.items
            /\ admins' = out.admins
            /\ last' = Ran("addadmin", caller, target, <<>>, <<>>, <<>>, <<>>, out)
            /\ UNCHANGED <<now, pending>>

RemoveAdmin ==
    \E caller \in Callers, target \in Everyone, down \in Faults({"admins.delete"}) :
        \E out \in {removeadmin_cmd(caller, target, items, admins, down)} :
            /\ items' = out.items
            /\ admins' = out.admins
            /\ last' = Ran("removeadmin", caller, target, <<>>, <<>>, <<>>, <<>>, out)
            /\ UNCHANGED <<now, pending>>

ListAdmins ==
    \E caller \in Callers, down \in Faults({"admins.list"}) :
        \E out \in {listadmins_cmd(caller, items, admins, down)} :
            /\ items' = out.items
            /\ admins' = out.admins
            /\ last' = Ran("listadmins", caller, 0, <<>>, <<>>, <<>>, <<>>, out)
            /\ UNCHANGED <<now, pending>>

Next == SetCmd \/ ValueCmd \/ AddAdmin \/ RemoveAdmin \/ ListAdmins

Spec == Init /\ [][Next]_vars

\* the lookup alone, over every items table of at most MaxItems rows
InitLookup ==
    /\ items \in Stores(MaxItems)
    /\ admins = {}
    /\ now = 0
    /\ last = Idle
    /\ pending = NoRequest

NextLookup == ValueCmd

SpecLookup == InitLookup /\ [][NextLookup]_vars

\* ------------------------------------------------- /set, step by step
\* set_cmd gives the event loop up once, at `await
\* interaction.response.defer()`, after the permission test and the test of
\* the field key: other handlers may run there.  From find_item to the
\* update it makes blocking calls only, so no handler runs in between, but
\* another client of the database may act between the two calls.

\* the field keys and values of the /set runs followed step by step
StepFields == {<<" ", "B", "a", "s", "e">>, <<"x", "y">>}

StepValues == {<<" ", "1", "2">>, <<"x">>}

\* lines 236-246: the run ends at a failed test, or is deferred
SetBegin ==
    /\ pending.phase = "none"
    /\ \E caller \in Callers, target \in SetTargets, field \in StepFields,
          value \in StepValues, down \in Faults({"admins.select"}) :
        \E out \in {set_cmd(caller, target[1], target[2], field, value,
                           items, admins, now, down)} :
            IF out.result \in {"NotAuthorized", "InvalidField"}
            THEN /\ last' = Ran("set", caller, 0, target[1], target[2], field,
                                value, out)
                 /\ UNCHANGED <<items, admins, now, pending>>
            ELSE /\ pending' = Request("deferred", caller, target[1], target[2],
                                       field, value, AuthCalls(caller, down),
                                       NoRequest.found)
                 /\ UNCHANGED <<items, admins, now, last>>

\* lines 247-263: find_item and the payload; the run ends unless both succeed
SetLookup ==
    /\ pending.phase = "deferred"
    /\ \E down \in Faults({"items.select"}) :
        \E found \in {find_item(pending.gun, pending.skin, items, down)} :
        \E out \in {set_cmd_deferred(pending.auth, found,
                                    VALUE_FIELDS[FieldLower(pending.field)],
                                    pending.value, items, admins, now, down)} :
            IF out.result \in {"Error", "ItemNotFound", "InvalidValue"}
            THEN /\ last' = Ran("set", pending.caller, 0, pending.gun,
                                pending.skin, pending.field, pending.value, out)
                 /\ pending' = NoRequest
                 /\ UNCHANGED <<items, admins, now>>
            ELSE /\ pending' = [pending EXCEPT !.phase = "found", !.found = found]
                 /\ UNCHANGED <<items, admins, now, last>>

\* lines 264-269: the update by id and the reply
SetWrite ==
    /\ pending.phase = "found"
    /\ \E down \in Faults({"items.update"}) :
        \E out \in {set_cmd_deferred(pending.auth, pending.found,
                                    VALUE_FIELDS[FieldLower(pending.field)],
                                    pending.value, items, admins, now, down)} :
            /\ out.items # items => now < MaxClock
            /\ items' = out.items
            /\ now' = IF out.items # items THEN now + 1 ELSE now
            /\ last' = Ran("set", pending.caller, 0, pending.gun, pending.skin,
                           pending.field, pending.value, out)
            /\ pending' = NoRequest
            /\ UNCHANGED admins

\* another client of the same database deletes a row of the items table
OtherClient ==
    \E i \in 1..Len(items) :
        /\ items' = SubSeq(items, 1, i - 1) \o SubSeq(items, i + 1, Len(items))
        /\ UNCHANGED <<admins, now, last, pending>>

\* the admin commands run whenever no /set is between find_item and update
GrantStep == pending.phase # "found" /\ AddAdmin

RevokeStep == pending.phase # "found" /\ RemoveAdmin

NextSteps ==
    SetBegin \/ SetLookup \/ SetWrite \/ OtherClient \/ GrantStep \/ RevokeStep

SpecSteps == Init /\ [][NextSteps]_vars

\* ----------------------------------------------------------------- claims
\* the principals the admins table adm names
AdminSet(adm) == {DigitsValue(r.user_id) : r \in adm}

\* p is the owner or in the admin set
Permitted(p, adm) == p = OWNER_ID \/ p \in AdminSet(adm)

\* the handler run recorded in l made the store call `name`
Made(l, name) == \E i \in 1..Len(l.calls) : l.calls[i].call = name

\* a store call of the run recorded in l raised
Raised(l) == \E i \in 1..Len(l.calls) : ~l.calls[i].ok

\* C1: /set by a caller who is neither the owner nor in the admin set replies
\* NotAuthorized and leaves every row of the items table as it was, whatever
\* the gun, skin, field and value.
C1_UnauthorizedSetWritesNothing ==
    [][(last'.cmd = "set" /\ ~Permitted(last'.caller, admins))
        => /\ last'.result = "NotAuthorized"
           /\ items' = items
           /\ ~Made(last', "items.update")]_vars

\* C1 witness: a stranger was refused a /set that names an existing item, a
\* known field and a value the field accepts.
C1_Witness ==
    /\ last.cmd = "set"
    /\ ~Permitted(last.caller, admins)
    /\ last.result = "NotAuthorized"
    /\ find_item(last.gun, last.skin, items, {}).item # NoItem
    /\ FieldLower(last.field) = <<"b", "a", "s", "e">>
    /\ CoerceValue("base_value", last.value).ok

\* C2: with the store answering, a principal may set values exactly when it is
\* the owner or in the admin set; the target of a successful grant may, the
\* target of a successful revoke may not.
C2_AuthorizedIffOwnerOrAdmin ==
    /\ \A p \in Everyone : _can_set_values(p, admins, {}) <=> Permitted(p, admins)
    /\ (last.cmd = "addadmin" /\ last.result = "Granted")
        => _can_set_values(last.target, admins, {})
    /\ (last.cmd = "removeadmin" /\ last.result = "Revoked")
        => ~_can_set_values(last.target, admins, {})
    /\ (last.cmd = "set" /\ ~Raised(last))
        => (last.result # "NotAuthorized" <=> Permitted(last.caller, admins))

\* C2 witness: a grant has just succeeded and its target may set values.
C2_Witness ==
    /\ last.cmd = "addadmin"
    /\ last.result = "Granted"
    /\ last.target # OWNER_ID
    /\ _can_set_values(last.target, admins, {})

\* C3: when the lookup in the admins table raises, nobody but the owner may
\* set values: /set replies NotAuthorized and makes no further store call; the
\* owner is authorized without any lookup.
C3_FailClosed ==
    /\ \A p \in Everyone :
        _can_set_values(p, admins, {"admins.select"}) <=> p = OWNER_ID
    /\ (last.cmd = "set" /\ Made(last, "admins.select") /\ ~last.calls[1].ok)
        => /\ last.result = "NotAuthorized"
           /\ Len(last.calls) = 1
    /\ (last.cmd = "set" /\ last.caller = OWNER_ID)
        => /\ last.result # "NotAuthorized"
           /\ ~Made(last, "admins.select")

\* C3 witness: a granted admin was refused because the lookup raised.
C3_Witness ==
    /\ last.cmd = "set"
    /\ last.caller \in AdminSet(admins)
    /\ Raised(last)
    /\ last.result = "NotAuthorized"

\* C4: /addadmin, /removeadmin and /listadmins by anybody but the owner reply
\* Denied, leave the admins table as it was and make no store call, whatever
\* the target.
C4_NonOwnerDenied ==
    [][(last'.cmd \in {"addadmin", "removeadmin", "listadmins"}
            /\ last'.caller # OWNER_ID)
        => /\ last'.result = "Denied"
           /\ admins' = admins
           /\ last'.calls = <<>>]_vars

\* C4 witness: a granted admin was denied the removal of another admin.
C4_Witness ==
    /\ last.cmd = "removeadmin"
    /\ last.caller # OWNER_ID
    /\ last.caller \in AdminSet(admins)
    /\ last.target \in AdminSet(admins)
    /\ last.target # last.caller
    /\ last.result = "Denied"

\* C5: the owner is never in the admin set; /addadmin by the owner naming the
\* owner replies AlreadyOwner and makes no insert.
C5_OwnerNeverAdmin ==
    /\ OWNER_ID \notin AdminSet(admins)
    /\ \A r \in admins : r.user_id # IntToStr(OWNER_ID)
    /\ (last.cmd = "addadmin" /\ last.caller = OWNER_ID /\ last.target = OWNER_ID)
        => /\ last.result = "AlreadyOwner"
           /\ last.calls = <<>>

\* C5 witness: the owner has just tried to grant the owner.
C5_Witness ==
    /\ last.cmd = "addadmin"
    /\ last.caller = OWNER_ID
    /\ last.target = OWNER_ID
    /\ last.result = "AlreadyOwner"

\* C6: /addadmin by the owner naming a principal already in the admin set
\* leaves the admins table as it was, rows and granted-by values alike, and,
\* the insert having reached the store, replies AlreadyAdmin.
C6_GrantIdempotent ==
    [][(last'.cmd = "addadmin" /\ last'.caller = OWNER_ID
            /\ last'.target \in AdminSet(admins))
        => /\ admins' = admins
           /\ Made(last', "admins.insert")
           /\ ~Raised(last') => last'.result = "AlreadyAdmin"]_vars

\* C6 witness: the owner has just granted a principal that was an admin.
C6_Witness ==
    /\ last.cmd = "addadmin"
    /\ last.caller = OWNER_ID
    /\ last.target \in AdminSet(admins)
    /\ last.result = "AlreadyAdmin"
    /\ Cardinality(admins) = 2

\* C7: /removeadmin by the owner, the delete having reached the store: naming
\* a principal in the admin set it replies Revoked and removes that
\* principal's row and no other; naming any other principal it replies
\* NotAnAdmin and leaves the admins table as it was.
C7_Revoke ==
    [][(last'.cmd = "removeadmin" /\ last'.caller = OWNER_ID /\ ~Raised(last'))
        => IF last'.target \in AdminSet(admins)
           THEN /\ last'.result = "Revoked"
                /\ AdminSet(admins') = AdminSet(admins) \ {last'.target}
                /\ admins' \subseteq admins
                /\ Cardinality(admins') = Cardinality(admins) - 1
           ELSE /\ last'.result = "NotAnAdmin"
                /\ admins' = admins]_vars

\* C7 witness: the owner has just revoked one admin and another remains.
C7_Witness ==
    /\ last.cmd = "removeadmin"
    /\ last.caller = OWNER_ID
    /\ last.result = "Revoked"
    /\ last.target \notin AdminSet(admins)
    /\ admins # {}

\* a and b differ only in letter case and surrounding blanks
SameText(a, b) == Lower(Strip(a)) = Lower(Strip(b))

\* the rows of the table that (gun, skin) names up to case and blanks
Named(gun, skin, rows) ==
    {i \in 1..Len(rows) :
        SameText(gun, rows[i].gun) /\ SameText(skin, rows[i].skin_name)}

\* the row has a gun and a skin_name that are not blank
HasName(row) == Strip(row.gun) # <<>> /\ Strip(row.skin_name) # <<>>

\* the row's gun is stored trimmed and in lower case
StoredLower(row) == row.gun = Lower(Strip(row.gun))

\* every spelling of the looked-up (gun, skin) among the inputs finds the
\* item that the lookup recorded in `last` found
SameForAllSpellings ==
    \A g \in GunInputs, sk \in SkinInputs :
        (SameText(g, last.gun) /\ SameText(sk, last.skin))
            => find_item(g, sk, items, {}).item.id = last.item

\* C8 as stated: a lookup whose gun and skin differ from those of a stored,
\* named row only in case and surrounding blanks finds an item, the same one
\* for every such spelling, however the row's gun is stored.
C8_AnyStoredCase ==
    (last.cmd = "value" /\ ~Raised(last)
        /\ \E i \in Named(last.gun, last.skin, items) : HasName(items[i]))
        => /\ last.result = "Found"
           /\ SameForAllSpellings

\* C8 amended: the same, for rows whose gun is stored trimmed and in lower
\* case; the item found is one the spelling names.
C8_StoredLowerCase ==
    (last.cmd = "value" /\ ~Raised(last)
        /\ \E i \in Named(last.gun, last.skin, items) :
            HasName(items[i]) /\ StoredLower(items[i]))
        => /\ last.result = "Found"
           /\ \E i \in Named(last.gun, last.skin, items) : items[i].id = last.item
           /\ SameForAllSpellings

\* C8 witness: a lookup spelled unlike the stored row found it, in a table
\* where two rows carry the name.
C8_Witness ==
    /\ last.cmd = "value"
    /\ last.result = "Found"
    /\ Cardinality(Named(last.gun, last.skin, items)) = 2
    /\ \E i \in 1..Len(items) :
        /\ items[i].id = last.item
        /\ items[i].gun # last.gun
        /\ items[i].skin_name # last.skin

\* the field keys of the specification
FieldKeys == {<<"b", "a", "s", "e">>, <<"d", "g">>, <<"c", "k">>,
              <<"u", "p", "g">>, <<"s", "t", "a", "t", "u", "s">>}

\* the value of the /set recorded in `last` cannot be coerced for its field
Uncoercible ==
    /\ Lower(Strip(last.field)) \in FieldKeys
    /\ ~CoerceValue(VALUE_FIELDS[Lower(Strip(last.field))], last.value).ok

\* the /set recorded in `last` passed the permission test
Passed ==
    \/ last.caller = OWNER_ID
    \/ /\ last.caller \in AdminSet(admins)
       /\ ~(Made(last, "admins.select") /\ ~last.calls[1].ok)

\* the lookup in the items table made by the run recorded in `last` raised
LookupRaised ==
    \E i \in 1..Len(last.calls) :
        last.calls[i].call = "items.select" /\ ~last.calls[i].ok

\* C9 as stated: for an authorized caller and a known field, a value that
\* cannot be coerced yields InvalidValue and no lookup in the items table,
\* whether or not the (gun, skin) pair names an item.
C9_CoercionBeforeLookup ==
    (last.cmd = "set" /\ Passed /\ Uncoercible)
        => /\ last.result = "InvalidValue"
           /\ ~Made(last, "items.select")

\* C9 amended: /set tests permission, then the field key, then looks the
\* item up, then coerces the value, then writes, and the first step that
\* fails decides the reply: a value that cannot be coerced yields
\* InvalidValue only after a lookup that found the item, and ItemNotFound
\* when the pair names no item.
C9_LookupBeforeCoercion ==
    last.cmd = "set"
        => /\ IF ~Passed THEN last.result = "NotAuthorized"
              ELSE IF Lower(Strip(last.field)) \notin FieldKeys
              THEN last.result = "InvalidField"
              ELSE IF LookupRaised THEN last.result = "Error"
              ELSE IF Named(last.gun, last.skin, items) = {}
              THEN last.result = "ItemNotFound"
              ELSE IF Uncoercible THEN last.result = "InvalidValue"
              ELSE /\ last.result \in {"Updated", "UpdateFailed", "Error"}
                   /\ Made(last, "items.update")
           /\ last.result \in {"NotAuthorized", "InvalidField"}
                => ~Made(last, "items.select") /\ ~Made(last, "items.update")
           /\ last.result \in {"ItemNotFound", "InvalidValue"}
                => Made(last, "items.select") /\ ~Made(last, "items.update")

\* C9 witness: an authorized /set with a value its field does not accept,
\* naming no item, was answered ItemNotFound after a lookup.
C9_Witness ==
    /\ last.cmd = "set"
    /\ Passed
    /\ Uncoercible
    /\ Named(last.gun, last.skin, items) = {}
    /\ last.result = "ItemNotFound"
    /\ Made(last, "items.select")

\* C10 as stated: /set with an unknown field key by a caller who passes the
\* permission test replies InvalidField having made no store call at all.
C10_NoStoreCall ==
    (last.cmd = "set" /\ Passed /\ Lower(Strip(last.field)) \notin FieldKeys)
        => /\ last.result = "InvalidField"
           /\ last.calls = <<>>

\* C10 amended: such a /set replies InvalidField, makes no call on the items
\* table and writes nothing; the owner's makes no store call at all, an
\* admin's makes the one lookup in the admins table that the permission test
\* needs.
C10_NoItemsCall ==
    [][(last'.cmd = "set"
            /\ (last'.caller = OWNER_ID
                \/ (last'.caller \in AdminSet(admins)
                    /\ ~(Made(last', "admins.select") /\ ~last'.calls[1].ok)))
            /\ Lower(Strip(last'.field)) \notin FieldKeys)
        => /\ last'.result = "InvalidField"
           /\ items' = items
           /\ last'.calls = IF last'.caller = OWNER_ID THEN <<>>
                            ELSE <<Call("admins.select", {})>>]_vars

\* C10 witness: a granted admin's /set with an unknown field key was answered
\* InvalidField after the lookup in the admins table.
C10_Witness ==
    /\ last.cmd = "set"
    /\ last.caller \in AdminSet(admins)
    /\ Lower(Strip(last.field)) \notin FieldKeys
    /\ last.result = "InvalidField"
    /\ Made(last, "admins.select")

\* the table rows holds a row with identifier id
Holds(rows, id) == \E i \in 1..Len(rows) : rows[i].id = id

\* C11: the step of /set that makes the update replies Updated exactly when
\* the update call was answered and the table held a row with the resolved
\* identifier; when the row was gone it replies UpdateFailed, when the call
\* raised the run ends in an error, and in both the table is left as it was.
C11_UpdatedOnlyWhenConfirmed ==
    [][(pending.phase = "found" /\ pending'.phase = "none")
        => /\ last'.cmd = "set"
           /\ Made(last', "items.update")
           /\ last'.result = "Updated"
                <=> (~Raised(last') /\ Holds(items, pending.found.item.id))
           /\ (~Raised(last') /\ ~Holds(items, pending.found.item.id))
                => (last'.result = "UpdateFailed" /\ items' = items)
           /\ Raised(last') => (last'.result = "Error" /\ items' = items)]_vars

\* C11 witness: the resolved row was deleted before the update, whose call
\* was answered, and /set replied UpdateFailed.
C11_Witness ==
    /\ last.cmd = "set"
    /\ last.result = "UpdateFailed"
    /\ Made(last, "items.update")
    /\ ~Raised(last)
    /\ last.item # 0
    /\ ~Holds(items, last.item)

\* what the specification's coercion gives for the values of the inputs:
\* a number for the numeric field, else the trimmed text, or null for a blank
Coerced(numeric, value) ==
    CASE value = <<" ", "1", "2">> ->
            IF numeric THEN IntV(12) ELSE TextV(<<"1", "2">>)
      [] value = <<"2", ".", "5", "0">> ->
            IF numeric THEN <<"float", 25, 1, <<>>>>
            ELSE TextV(<<"2", ".", "5", "0">>)
      [] value = <<"x">> -> TextV(<<"x">>)
      [] OTHER -> Null

\* the column of a field key of the specification
ColumnOf(key) ==
    CASE key = <<"b", "a", "s", "e">> -> "base_value"
      [] key = <<"d", "g">> -> "dg_value"
      [] key = <<"c", "k">> -> "ck_value"
      [] key = <<"u", "p", "g">> -> "upg_value"
      [] OTHER -> "status"

\* C12: a /set that replies Updated changes one row, the one find_item
\* resolves, and in it the column of the field key, set to the coerced
\* value, and updated_at, set to the present instant, later than the one it
\* held; every other row and column is as before.  A /set with any other
\* reply leaves the items table as it was.
C12_WritesOneCell ==
    [][last'.cmd = "set"
        => IF last'.result = "Updated"
           THEN LET key == Lower(Strip(last'.field))
                    target == find_item(last'.gun, last'.skin, items, {}).item
                IN  /\ target # NoItem
                    /\ last'.item = target.id
                    /\ Len(items') = Len(items)
                    /\ now' > now
                    /\ Cardinality({i \in 1..Len(items) : items'[i] # items[i]}) = 1
                    /\ \A i \in 1..Len(items) :
                        IF items[i].id = target.id
                        THEN /\ items'[i] =
                                    [items[i] EXCEPT
                                        ![ColumnOf(key)] =
                                            Coerced(key = <<"b", "a", "s", "e">>,
                                                    last'.value),
                                        !.updated_at = now']
                             /\ items'[i].updated_at > items[i].updated_at
                        ELSE items'[i] = items[i]
           ELSE items' = items]_vars

\* C12 witness: /set has just written 2.5 as the base value of the second
\* row, and the first row is as it was stored.
C12_Witness ==
    /\ last.cmd = "set"
    /\ last.result = "Updated"
    /\ last.item = 2
    /\ items[2].base_value = <<"float", 25, 1, <<>>>>
    /\ items[2].updated_at = now
    /\ items[2].dg_value = Null
    /\ items[1] = SeedItems[1]

\* C13 as first stated: every /set that has written was run for a caller who
\* is the owner or in the admin set in the state the write leaves, whatever
\* removeadmin did while the /set was suspended.
C13_PermittedAtWrite ==
    (last.cmd = "set" /\ last.result = "Updated") => Permitted(last.caller, admins)

\* C13: /set tests the permission once, when it is invoked and before its
\* first suspension: a request is deferred only for a caller who is then the
\* owner or in the admin set, the request keeps its caller while it is in
\* flight, and a handler changes the items table only in the update that
\* ends a deferred request, replying Updated to that caller.  A /set invoked
\* once removeadmin has completed is therefore refused and writes nothing,
\* while a removeadmin that completes during the suspension stops nothing.
C13_PermittedWhenInvoked ==
    [][/\ (pending.phase = "none" /\ pending'.phase = "deferred")
            => Permitted(pending'.caller, admins)
       /\ (pending.phase # "none" /\ pending'.phase # "none")
            => /\ pending'.caller = pending.caller
               /\ pending'.auth = pending.auth
       /\ items' # items
            => \/ pending' = pending /\ last' = last /\ Len(items') < Len(items)
               \/ /\ pending.phase = "found"
                  /\ pending'.phase = "none"
                  /\ last'.cmd = "set"
                  /\ last'.result = "Updated"
                  /\ last'.caller = pending.caller]_vars

\* C13 witness: /set has written for user 7, who is not in the admin set any
\* more.
C13_Witness ==
    /\ last.cmd = "set"
    /\ last.result = "Updated"
    /\ last.caller = 7
    /\ 7 \notin AdminSet(admins)
    /\ \E i \in 1..Len(items) : items[i].id = last.item /\ items[i].updated_at = now

====
